---- MODULE Spec2Model ----
(***************************************************************************)
(* Model of scheduler/cloudformation/template.go: EmpireTemplate.Build     *)
(* compiles a scheduler.App into a CloudFormation template (a Go map with  *)
(* Parameters, Resources and Outputs).                                     *)
(*                                                                         *)
(* Strings the code takes apart or puts together (process types, logical   *)
(* ids, the DNS name) are sequences of one-character strings; strings the  *)
(* code only passes through are TLA+ strings.  A Go map is a function, a   *)
(* Go slice a sequence, a nil pointer the empty sequence and a non-nil     *)
(* pointer a one-element sequence.                                         *)
(***************************************************************************)
EXTENDS Integers, Sequences, FiniteSets, TLC

VARIABLES
    app,        \* the *scheduler.App handed to Build (the same on every call)
    tmpl,       \* the EmpireTemplate receiver t
    pc,         \* "idle" | "loop" | "returned" | "panicked"
    i,          \* index in app.Processes of the next process of the range loop
    parameters, \* Build's local map parameters
    resources,  \* Build's local map resources
    outputs,    \* Build's local map outputs
    ret,        \* what the last finished call returned: <<>> or <<[v, err]>>
    prev,       \* what the call before it returned
    calls,      \* number of Build calls started
    graph,      \* the resources the provisioning engine applies: <<>> or <<map>>
    answered,   \* logical ids whose port-allocation request was answered
    materialized \* logical ids of the resources the engine has materialized

vars == <<app, tmpl, pc, i, parameters, resources, outputs, ret, prev, calls,
          graph, answered, materialized>>

(***************************************************************************)
(* Bounds of the model.                                                    *)
(***************************************************************************)
MaxProcs == 2    \* processes per App
MaxBuilds == 2   \* Build calls per behaviour

(***************************************************************************)
(* Program constants.                                                      *)
(***************************************************************************)
ContainerPort == 8080
defaultConnectionDrainingTimeout == 30
defaultCNAMETTL == 60
LoadBalancerPort == 80
MB == 1048576

schemeInternal == "internal"
schemeExternal == "internet-facing"

Str_InstancePort == <<"I","n","s","t","a","n","c","e","P","o","r","t">>
Str_LoadBalancer == <<"L","o","a","d","B","a","l","a","n","c","e","r">>
Str_TaskDefinition == <<"T","a","s","k","D","e","f","i","n","i","t","i","o","n">>
Str_CNAME == <<"C","N","A","M","E">>
Str_web == <<"w","e","b">>

(***************************************************************************)
(* String helpers.                                                         *)
(***************************************************************************)
Lower == {"a","b","c","d","e","f","g","h","i","j","k","l","m",
          "n","o","p","q","r","s","t","u","v","w","x","y","z"}
Upper == {"A","B","C","D","E","F","G","H","I","J","K","L","M",
          "N","O","P","Q","R","S","T","U","V","W","X","Y","Z"}
Digit == {"0","1","2","3","4","5","6","7","8","9"}

\* the characters the regexp [^a-zA-Z0-9] does NOT match
Alnum == Lower \cup Upper \cup Digit

DigitChar(d) == <<"0","1","2","3","4","5","6","7","8","9">>[d + 1]

\* fmt's %d verb for a non-negative integer
RECURSIVE FormatInt(_)
FormatInt(n) ==
    IF n < 10 THEN <<DigitChar(n)>>
    ELSE FormatInt(n \div 10) \o <<DigitChar(n % 10)>>

\* mutant: the character class lacks A-Z
normalize_NoUpperCase(type) == SelectSeq(type, LAMBDA c : c \in Lower \cup Digit)

\* r.ReplaceAllString(p.Type, "") with r = [^a-zA-Z0-9]
normalize(type) == SelectSeq(type, LAMBDA c : c \in Alnum)

\* mutant: the load balancer's port in place of the container's
instancePortId_ListenerPort(key) == key \o FormatInt(80) \o Str_InstancePort

\* fmt.Sprintf("%s%dInstancePort", key, ContainerPort)
instancePortId(key) == key \o FormatInt(ContainerPort) \o Str_InstancePort

\* fmt.Sprintf("%sLoadBalancer", key)
loadBalancerId(key) == key \o Str_LoadBalancer

\* fmt.Sprintf("%sTaskDefinition", key)
taskDefinitionId(key) == key \o Str_TaskDefinition

\* fmt.Sprintf("%s", key)
serviceId(key) == key

\* resources[k] = v on a Go map
Put(m, k, v) == [x \in DOMAIN m \cup {k} |-> IF x = k THEN v ELSE m[x]]

EmptyMap == [x \in {} |-> 0]

\* every order in which a range over a Go map with key set S may visit the keys
Orders(S) == {o \in [1..Cardinality(S) -> S] : \A a, b \in 1..Cardinality(S) : o[a] = o[b] => a = b}


(***************************************************************************)
(* Inputs: the Apps and the template configurations Build is run on.       *)
(***************************************************************************)
Str_worker1 == <<"w","o","r","k","e","r","-","1">>
Str_worker1n == <<"w","o","r","k","e","r","1">>
Str_acme == <<"a","c","m","e","-","i","n","c">>
Str_empire == <<"e","m","p","i","r","e",".">>

\* "worker-1" and "worker1" normalize to the same key; "CNAME" is the key of
\* the DNS record
ProcessTypes == {Str_web, Str_worker1, Str_worker1n, Str_CNAME}

\* p.Exposure: nil, or a *scheduler.Exposure with External and a Type that is
\* *HTTPExposure, *HTTPSExposure{Cert} or *TCPExposure
Unexposed == [Exposed |-> FALSE, External |-> FALSE, Kind |-> "none", Cert |-> ""]
Exposure(external, kind, cert) ==
    [Exposed |-> TRUE, External |-> external, Kind |-> kind, Cert |-> cert]

\* what a process declares besides its type
ProcessShapes ==
    { [Exposure |-> Unexposed,
       Env |-> [k \in {} |-> ""],
       Command |-> <<"./bin/worker">>, Image |-> "remind101/acme-inc:latest",
       CPUShares |-> 256, MemoryLimit |-> 104857600, Instances |-> 1,
       Nproc |-> 0, Labels |-> [k \in {} |-> ""]],
      [Exposure |-> Exposure(FALSE, "http", ""),
       Env |-> [k \in {"RAILS_ENV"} |-> "production"],
       Command |-> <<"./bin/web">>, Image |-> "remind101/acme-inc:latest",
       CPUShares |-> 512, MemoryLimit |-> 104857601, Instances |-> 2,
       Nproc |-> 256, Labels |-> [k \in {"empire.app.name"} |-> "acme-inc"]],
      [Exposure |-> Exposure(TRUE, "http", ""),
       Env |-> [k \in {"RAILS_ENV", "LOG_LEVEL"} |-> IF k = "LOG_LEVEL" THEN "info" ELSE "production"],
       Command |-> <<"./bin/web">>, Image |-> "remind101/acme-inc:latest",
       CPUShares |-> 512, MemoryLimit |-> 104857600, Instances |-> 1,
       Nproc |-> 0, Labels |-> [k \in {} |-> ""]],
      [Exposure |-> Exposure(TRUE, "https", "iamcert"),
       Env |-> [k \in {"RAILS_ENV"} |-> "production"],
       Command |-> <<"./bin/web">>, Image |-> "remind101/acme-inc:latest",
       CPUShares |-> 512, MemoryLimit |-> 104857600, Instances |-> 3,
       Nproc |-> 0, Labels |-> [k \in {} |-> ""]],
      [Exposure |-> Exposure(FALSE, "tcp", ""),
       Env |-> [k \in {} |-> ""],
       Command |-> <<"./bin/tcp", "serve">>, Image |-> "remind101/acme-inc:latest",
       CPUShares |-> 256, MemoryLimit |-> 104857600, Instances |-> 1,
       Nproc |-> 0, Labels |-> [k \in {} |-> ""]] }

Process(type, shape) ==
    [Type |-> type, Exposure |-> shape.Exposure, Env |-> shape.Env,
     Command |-> shape.Command, Image |-> shape.Image, CPUShares |-> shape.CPUShares,
     MemoryLimit |-> shape.MemoryLimit, Instances |-> shape.Instances,
     Nproc |-> shape.Nproc, Labels |-> shape.Labels]

Processes == {Process(t, s) : t \in ProcessTypes, s \in ProcessShapes}

\* a process type is unique within an App
DistinctTypes(ps) == \A a, b \in 1..Len(ps) : ps[a].Type = ps[b].Type => a = b

Apps ==
    { [Name |-> Str_acme, Processes |-> ps] :
        ps \in {q \in UNION {[1..n -> Processes] : n \in 0..MaxProcs} : DistinctTypes(q)} }

Zone == [Id |-> "Z3DG6IL3SJCGPX", Name |-> Str_empire]

\* an EmpireTemplate with the given HostedZone and LogConfiguration
EmpireTemplate(hz, lc) ==
    [Cluster |-> "cluster", HostedZone |-> hz,
     InternalSecurityGroupID |-> "sg-e7387381", ExternalSecurityGroupID |-> "sg-1938737f",
     InternalSubnetIDs |-> <<"subnet-bb01c4cd", "subnet-c85f4091">>,
     ExternalSubnetIDs |-> <<"subnet-ca96f4cd", "subnet-a13b909c">>,
     ServiceRole |-> "ecsServiceRole", CustomResourcesTopic |-> "sns topic arn",
     LogConfiguration |-> lc]

Templates ==
    { EmpireTemplate(<< >>, << >>),
      EmpireTemplate(<<Zone>>, << >>),
      EmpireTemplate(<<Zone>>, << [LogDriver |-> "json-file"] >>) }

(***************************************************************************)
(* The values Build puts into the template.                                *)
(***************************************************************************)
\* {"Ref": id}
Ref(id) == [Ref |-> id]

\* {"Fn::GetAtt": [id, attr]}
GetAtt(id, attr) == [FnGetAtt |-> <<id, attr>>]

\* ContainerDefinition's environment: one pair per key of p.Env, in the order
\* the range over the map visits them
Environment(p, order) ==
    [j \in 1..Len(order) |-> [Name |-> order[j], Value |-> p.Env[order[j]]]]

\* mutant: the entry is emitted whatever p.Nproc is
Ulimits_Always(p) ==
    << [Name |-> "nproc", SoftLimit |-> p.Nproc, HardLimit |-> p.Nproc] >>

\* ContainerDefinition's ulimits
Ulimits(p) ==
    IF p.Nproc # 0
    THEN << [Name |-> "nproc", SoftLimit |-> p.Nproc, HardLimit |-> p.Nproc] >>
    ELSE << >>

\* mutant: the memory limit is rounded to the nearest megabyte
ContainerDefinition_RoundsMemory(t, p, order) ==
    [Name |-> p.Type,
     Cpu |-> p.CPUShares,
     Command |-> p.Command,
     Image |-> p.Image,
     Essential |-> TRUE,
     Memory |-> (p.MemoryLimit + MB \div 2) \div MB,
     Environment |-> Environment(p, order),
     LogConfiguration |-> t.LogConfiguration,
     DockerLabels |-> p.Labels,
     Ulimits |-> Ulimits(p)]

\* t.ContainerDefinition(p)
ContainerDefinition(t, p, order) ==
    [Name |-> p.Type,
     Cpu |-> p.CPUShares,
     Command |-> p.Command,
     Image |-> p.Image,
     Essential |-> TRUE,
     Memory |-> p.MemoryLimit \div MB,
     Environment |-> Environment(p, order),
     LogConfiguration |-> t.LogConfiguration,
     DockerLabels |-> p.Labels,
     Ulimits |-> Ulimits(p)]

\* resources[instancePort]
InstancePortResource(t) ==
    [Type |-> "Custom::InstancePort",
     Version |-> "1.0",
     Properties |-> [ServiceToken |-> t.CustomResourcesTopic]]

\* mutant: the second listener is added for an external exposure
Listeners_ByVisibility(p, instancePort) ==
    << [LoadBalancerPort |-> 80,
        Protocol |-> "http",
        InstancePort |-> GetAtt(instancePort, "InstancePort"),
        InstanceProtocol |-> "http"] >>
    \o (IF p.Exposure.External
        THEN << [LoadBalancerPort |-> 80,
                 Protocol |-> "http",
                 InstancePort |-> GetAtt(instancePort, "InstancePort"),
                 SSLCertificateId |-> p.Exposure.Cert,
                 InstanceProtocol |-> "http"] >>
        ELSE << >>)

\* listeners
Listeners(p, instancePort) ==
    << [LoadBalancerPort |-> LoadBalancerPort,
        Protocol |-> "http",
        InstancePort |-> GetAtt(instancePort, "InstancePort"),
        InstanceProtocol |-> "http"] >>
    \o (IF p.Exposure.Kind = "https"
        THEN << [LoadBalancerPort |-> LoadBalancerPort,
                 Protocol |-> "http",
                 InstancePort |-> GetAtt(instancePort, "InstancePort"),
                 SSLCertificateId |-> p.Exposure.Cert,
                 InstanceProtocol |-> "http"] >>
        ELSE << >>)

\* mutant: the port mapping is appended outside the exposure block
PortMappings_Always(p, instancePort) ==
    << [ContainerPort |-> ContainerPort,
        HostPort |-> GetAtt(instancePort, "InstancePort")] >>

\* portMappings
PortMappings(p, instancePort) ==
    IF p.Exposure.Exposed
    THEN << [ContainerPort |-> ContainerPort,
             HostPort |-> GetAtt(instancePort, "InstancePort")] >>
    ELSE << >>

\* cd.Environment, with PORT appended for an exposed process
cdEnvironment(p, cd) ==
    IF p.Exposure.Exposed
    THEN Append(cd.Environment, [Name |-> "PORT", Value |-> FormatInt(ContainerPort)])
    ELSE cd.Environment

\* mutant: the reference is built from p.Type, not from the normalized key
LoadBalancers_TypeForKey(p, loadBalancer) ==
    IF p.Exposure.Exposed
    THEN << [ContainerName |-> p.Type,
             ContainerPort |-> ContainerPort,
             LoadBalancerName |-> Ref(loadBalancerId(p.Type))] >>
    ELSE << >>

\* loadBalancers, the service's attachment list
LoadBalancers(p, loadBalancer) ==
    IF p.Exposure.Exposed
    THEN << [ContainerName |-> p.Type,
             ContainerPort |-> ContainerPort,
             LoadBalancerName |-> Ref(loadBalancer)] >>
    ELSE << >>

\* resources[loadBalancer]
LoadBalancerResource(t, p, listeners) ==
    [Type |-> "AWS::ElasticLoadBalancing::LoadBalancer",
     Properties |->
        [Scheme |-> IF p.Exposure.External THEN schemeExternal ELSE schemeInternal,
         SecurityGroups |-> << IF p.Exposure.External THEN t.ExternalSecurityGroupID
                                                      ELSE t.InternalSecurityGroupID >>,
         Subnets |-> IF p.Exposure.External THEN t.ExternalSubnetIDs ELSE t.InternalSubnetIDs,
         Listeners |-> listeners,
         CrossZone |-> TRUE,
         Tags |-> << [Key |-> "empire.app.process", Value |-> p.Type] >>,
         ConnectionDrainingPolicy |->
            [Enabled |-> TRUE, Timeout |-> defaultConnectionDrainingTimeout]]]

\* resources["CNAME"]; t.HostedZone is not nil here
CNAMEResource(t, a, loadBalancer) ==
    [Type |-> "AWS::Route53::RecordSet",
     Properties |->
        [HostedZoneId |-> t.HostedZone[1].Id,
         Name |-> a.Name \o <<".">> \o t.HostedZone[1].Name,
         Type |-> "CNAME",
         TTL |-> defaultCNAMETTL,
         ResourceRecords |-> << Ref(loadBalancer) >>]]

\* containerDefinition
containerDefinition(cd, environment, portMappings) ==
    [Name |-> cd.Name,
     Command |-> cd.Command,
     Cpu |-> cd.Cpu,
     Image |-> cd.Image,
     Essential |-> cd.Essential,
     Memory |-> cd.Memory,
     Environment |-> environment,
     PortMappings |-> portMappings,
     DockerLabels |-> cd.DockerLabels,
     Ulimits |-> cd.Ulimits]
    @@ (IF cd.LogConfiguration # << >>
        THEN [LogConfiguration |-> cd.LogConfiguration[1]]
        ELSE [k \in {} |-> 0])

\* resources[taskDefinition]
TaskDefinitionResource(cdef) ==
    [Type |-> "AWS::ECS::TaskDefinition",
     Properties |-> [ContainerDefinitions |-> << cdef >>, Volumes |-> << >>]]

\* mutant: Role is set whether or not there is a load balancer
serviceProperties_AlwaysRole(t, p, loadBalancers, taskDefinition) ==
    [Cluster |-> t.Cluster,
     DesiredCount |-> p.Instances,
     LoadBalancers |-> loadBalancers,
     TaskDefinition |-> Ref(taskDefinition),
     Role |-> t.ServiceRole]

\* serviceProperties
serviceProperties(t, p, loadBalancers, taskDefinition) ==
    [Cluster |-> t.Cluster,
     DesiredCount |-> p.Instances,
     LoadBalancers |-> loadBalancers,
     TaskDefinition |-> Ref(taskDefinition)]
    @@ (IF Len(loadBalancers) > 0
        THEN [Role |-> t.ServiceRole]
        ELSE [k \in {} |-> 0])

\* resources[service]
ServiceResource(p, properties) ==
    [Type |-> "AWS::ECS::Service",
     Metadata |-> [name |-> p.Type],
     Properties |-> properties]


(***************************************************************************)
(* One pass of Build's loop over app.Processes.                            *)
(***************************************************************************)
\* the map literal of resources["CNAME"] dereferences t.HostedZone
DereferencesHostedZone(p) == p.Exposure.Exposed /\ p.Type = Str_web

\* resources after the writes of the  if p.Exposure != nil  block that come
\* before the  if p.Type == "web"  test
ExposureWrites(t, p, res) ==
    LET key == normalize(p.Type)
        instancePort == instancePortId(key)
        loadBalancer == loadBalancerId(key)
        r1 == Put(res, instancePort, InstancePortResource(t))
    IN  IF p.Exposure.Exposed
        THEN Put(r1, loadBalancer, LoadBalancerResource(t, p, Listeners(p, instancePort)))
        ELSE res

\* resources after the  if p.Type == "web"  block
CNAMEWrite(t, a, p, res) ==
    IF DereferencesHostedZone(p)
    THEN Put(res, Str_CNAME, CNAMEResource(t, a, loadBalancerId(normalize(p.Type))))
    ELSE res

\* resources after the writes of the task definition and of the service
ServiceWrites(t, p, order, res) ==
    LET key == normalize(p.Type)
        cd == ContainerDefinition(t, p, order)
        taskDefinition == taskDefinitionId(key)
        cdef == containerDefinition(cd, cdEnvironment(p, cd),
                                    PortMappings(p, instancePortId(key)))
        r1 == Put(res, taskDefinition, TaskDefinitionResource(cdef))
        props == serviceProperties(t, p, LoadBalancers(p, loadBalancerId(key)), taskDefinition)
    IN  Put(r1, serviceId(key), ServiceResource(p, props))

\* resources after the whole pass for process p
Iteration(t, a, p, order, res) ==
    ServiceWrites(t, p, order, CNAMEWrite(t, a, p, ExposureWrites(t, p, res)))

\* the value Build returns
Template(params, res, outs) ==
    [Parameters |-> params, Resources |-> res, Outputs |-> outs]

(***************************************************************************)
(* The state machine.                                                      *)
(***************************************************************************)
Init ==
    /\ app \in Apps
    /\ tmpl \in Templates
    /\ pc = "idle"
    /\ i = 1
    /\ parameters = EmptyMap
    /\ resources = EmptyMap
    /\ outputs = EmptyMap
    /\ ret = << >>
    /\ prev = << >>
    /\ calls = 0
    /\ graph = << >>
    /\ answered = {}
    /\ materialized = {}

\* mutant: the three maps are kept from the call before, as fields of the
\* template would be
BuildCall_KeepsMaps ==
    /\ pc \in {"idle", "returned"}
    /\ calls < MaxBuilds
    /\ pc' = "loop"
    /\ i' = 1
    /\ prev' = ret
    /\ ret' = << >>
    /\ calls' = calls + 1
    /\ UNCHANGED <<app, tmpl, parameters, resources, outputs, graph, answered, materialized>>

\* a caller enters Build: the three maps are made
BuildCall ==
    /\ pc \in {"idle", "returned"}
    /\ calls < MaxBuilds
    /\ pc' = "loop"
    /\ i' = 1
    /\ parameters' = EmptyMap
    /\ resources' = EmptyMap
    /\ outputs' = EmptyMap
    /\ prev' = ret
    /\ ret' = << >>
    /\ calls' = calls + 1
    /\ UNCHANGED <<app, tmpl, graph, answered, materialized>>

\* one pass of the loop that runs to its end
BuildIteration ==
    /\ pc = "loop"
    /\ i <= Len(app.Processes)
    /\ ~(DereferencesHostedZone(app.Processes[i]) /\ tmpl.HostedZone = << >>)
    /\ \E order \in Orders(DOMAIN app.Processes[i].Env) :
          resources' = Iteration(tmpl, app, app.Processes[i], order, resources)
    /\ i' = i + 1
    /\ UNCHANGED <<app, tmpl, pc, parameters, outputs, ret, prev, calls, graph, answered, materialized>>

\* one pass of the loop that dereferences the nil t.HostedZone: Build panics
BuildIterationPanics ==
    /\ pc = "loop"
    /\ i <= Len(app.Processes)
    /\ DereferencesHostedZone(app.Processes[i])
    /\ tmpl.HostedZone = << >>
    /\ resources' = ExposureWrites(tmpl, app.Processes[i], resources)
    /\ pc' = "panicked"
    /\ UNCHANGED <<app, tmpl, i, parameters, outputs, ret, prev, calls, graph, answered, materialized>>

\* the loop is over: Build returns the template and a nil error
BuildReturn ==
    /\ pc = "loop"
    /\ i > Len(app.Processes)
    /\ ret' = << [v |-> << Template(parameters, resources, outputs) >>, err |-> << >>] >>
    /\ pc' = "returned"
    /\ UNCHANGED <<app, tmpl, i, parameters, resources, outputs, prev, calls, graph, answered, materialized>>

Next ==
    \/ BuildCall
    \/ BuildIteration
    \/ BuildIterationPanics
    \/ BuildReturn

Spec == Init /\ [][Next]_vars


(***************************************************************************)
(* Vocabulary of the properties.                                           *)
(***************************************************************************)
Range(f) == {f[x] : x \in DOMAIN f}

Returned == pc = "returned"

\* the template the finished call returned, and its error value
ReturnedTemplate == ret[1].v[1]
ReturnedError == ret[1].err

\* the process whose pass of the loop was the last to run to its end
Last == app.Processes[i - 1]

ExposedWeb(p) == p.Exposure.Exposed /\ p.Type = Str_web
HasExposedWeb == \E j \in 1..Len(app.Processes) : ExposedWeb(app.Processes[j])

\* the logical ids named by {"Ref": ...} and {"Fn::GetAtt": [...]} in the
\* properties of a resource
ReferencedIds(r) ==
    CASE r.Type = "AWS::ElasticLoadBalancing::LoadBalancer" ->
            {l.InstancePort.FnGetAtt[1] : l \in Range(r.Properties.Listeners)}
      [] r.Type = "AWS::ECS::TaskDefinition" ->
            UNION {{m.HostPort.FnGetAtt[1] : m \in Range(c.PortMappings)} :
                      c \in Range(r.Properties.ContainerDefinitions)}
      [] r.Type = "AWS::ECS::Service" ->
            {a.LoadBalancerName.Ref : a \in Range(r.Properties.LoadBalancers)}
            \cup {r.Properties.TaskDefinition.Ref}
      [] r.Type = "AWS::Route53::RecordSet" ->
            {rr.Ref : rr \in Range(r.Properties.ResourceRecords)}
      [] OTHER -> {}

\* the logical ids under which Build stores a resource for process p
ContributedIds(p) ==
    {taskDefinitionId(normalize(p.Type)), serviceId(normalize(p.Type))}
    \cup (IF p.Exposure.Exposed
          THEN {instancePortId(normalize(p.Type)), loadBalancerId(normalize(p.Type))}
          ELSE {})
    \cup (IF ExposedWeb(p) THEN {Str_CNAME} ELSE {})

\* two processes of the App contribute a resource under the same logical id
HasCollision ==
    \E a, b \in 1..Len(app.Processes) :
        a # b /\ ContributedIds(app.Processes[a]) \cap ContributedIds(app.Processes[b]) # {}

\* two processes of the App have types that normalize to the same key, so
\* that the task definition and the service of both go under the same ids
HasSameKey ==
    \E a, b \in 1..Len(app.Processes) :
        /\ a # b
        /\ normalize(app.Processes[a].Type) = normalize(app.Processes[b].Type)
        /\ ContributedIds(app.Processes[a]) \cap ContributedIds(app.Processes[b]) # {}

(***************************************************************************)
(* C1: in every template Build returns, every Ref and every Fn::GetAtt     *)
(* found in the properties of a resource names a key of Resources.         *)
(***************************************************************************)
C1_ReferentialIntegrity ==
    Returned =>
        \A k \in DOMAIN ReturnedTemplate.Resources :
            ReferencedIds(ReturnedTemplate.Resources[k]) \subseteq DOMAIN ReturnedTemplate.Resources

\* a returned template with a Ref and a Fn::GetAtt in it
C1_Witness ==
    /\ Returned
    /\ \E k \in DOMAIN ReturnedTemplate.Resources :
          /\ ReturnedTemplate.Resources[k].Type = "AWS::ECS::Service"
          /\ ReturnedTemplate.Resources[k].Properties.LoadBalancers # << >>
    /\ \E k \in DOMAIN ReturnedTemplate.Resources :
          /\ ReturnedTemplate.Resources[k].Type = "AWS::ElasticLoadBalancing::LoadBalancer"
          /\ ReferencedIds(ReturnedTemplate.Resources[k]) # {}

(***************************************************************************)
(* C2: with an exposed "web" process and a nil HostedZone, Build ends by   *)
(* returning a non-nil error and no template; it does not panic.           *)
(***************************************************************************)
C2_MissingZoneIsReturnedError ==
    (pc \in {"returned", "panicked"} /\ HasExposedWeb /\ tmpl.HostedZone = << >>) =>
        (pc = "returned" /\ ReturnedError # << >> /\ ret[1].v = << >>)

(***************************************************************************)
(* C3: when two processes of the App contribute a resource under the same  *)
(* logical id, as two whose types normalize to the same key do, Build      *)
(* returns an error, and no template in which the resource of one has      *)
(* replaced the resource of the other.                                     *)
(***************************************************************************)
C3_CollisionIsReturnedError ==
    (Returned /\ HasSameKey) => (ReturnedError # << >> /\ ret[1].v = << >>)

(***************************************************************************)
(* C4: two Build calls of the same template on the same App return         *)
(* templates that are equal: the same keys with the same values, every     *)
(* list (each container's Environment too) compared as a sequence.         *)
(***************************************************************************)
C4_SameAppSameTemplate ==
    (Returned /\ prev # << >>) => ret[1].v = prev[1].v


(***************************************************************************)
(* The ids and types the properties expect, written out.                   *)
(***************************************************************************)
\* s without the characters outside [A-Za-z0-9], the others in their order
RECURSIVE Strip(_)
Strip(s) ==
    IF s = << >> THEN << >>
    ELSE IF Head(s) \in Lower \cup Upper \cup Digit
         THEN <<Head(s)>> \o Strip(Tail(s))
         ELSE Strip(Tail(s))

ExpectedInstancePort(p) == Strip(p.Type) \o <<"8","0","8","0">> \o Str_InstancePort
ExpectedLoadBalancer(p) == Strip(p.Type) \o Str_LoadBalancer
ExpectedTaskDefinition(p) == Strip(p.Type) \o Str_TaskDefinition
ExpectedService(p) == Strip(p.Type)

IsInstancePort(r) == r.Type = "Custom::InstancePort"
IsLoadBalancer(r) == r.Type = "AWS::ElasticLoadBalancing::LoadBalancer"
IsTaskDefinition(r) == r.Type = "AWS::ECS::TaskDefinition"
IsService(r) == r.Type = "AWS::ECS::Service"
IsRecordSet(r) == r.Type = "AWS::Route53::RecordSet"

\* a pass of the loop has just run to its end (the loop may go on, or Build
\* may have returned since)
PassDone == pc \in {"loop", "returned"} /\ i > 1

ExposedProcesses == {q \in Range(app.Processes) : q.Exposure.Exposed}

C6_ListenersByVariant ==
    (PassDone /\ Last.Exposure.Exposed) =>
      LET lb == ExpectedLoadBalancer(Last)
          ip == ExpectedInstancePort(Last)
      IN
        /\ lb \in DOMAIN resources
        /\ IsLoadBalancer(resources[lb])
        /\ LET ls == resources[lb].Properties.Listeners
           IN  /\ Len(ls) = (IF Last.Exposure.Kind = "https" THEN 2 ELSE 1)
               /\ \A j \in 1..Len(ls) :
                     /\ ls[j].LoadBalancerPort = 80
                     /\ ls[j].InstancePort = [FnGetAtt |-> <<ip, "InstancePort">>]
                     /\ IsInstancePort(resources[ls[j].InstancePort.FnGetAtt[1]])
                     /\ ("SSLCertificateId" \in DOMAIN ls[j])
                            <=> (Last.Exposure.Kind = "https" /\ j = 2)
               /\ Last.Exposure.Kind = "https" => ls[2].SSLCertificateId = Last.Exposure.Cert

\* an HTTPS load balancer with its two listeners
C6_Witness ==
    /\ PassDone
    /\ Last.Exposure.Exposed
    /\ Last.Exposure.Kind = "https"
    /\ Len(resources[ExpectedLoadBalancer(Last)].Properties.Listeners) = 2

\* an external and an internal HTTP load balancer, one listener each
C6_WitnessVisibility ==
    /\ PassDone
    /\ Len(app.Processes) = 2
    /\ \A j \in 1..2 : app.Processes[j].Exposure.Kind = "http"
    /\ app.Processes[1].Exposure.External # app.Processes[2].Exposure.External
    /\ i = 3
    /\ ~HasCollision
    /\ \A j \in 1..2 :
          Len(resources[ExpectedLoadBalancer(app.Processes[j])].Properties.Listeners) = 1

(***************************************************************************)
(* C7: with a hosted zone, the returned template holds exactly one         *)
(* AWS::Route53::RecordSet if the App has an exposed "web" process and     *)
(* none otherwise; the record is {app name}.{zone name}, a CNAME, TTL 60,  *)
(* and refers to the load balancer of "web".                               *)
(***************************************************************************)
C7_OneRecordForExposedWeb ==
    (Returned /\ tmpl.HostedZone # << >>) =>
        LET res == ReturnedTemplate.Resources
            records == {k \in DOMAIN res : IsRecordSet(res[k])}
        IN  IF HasExposedWeb
            THEN /\ Cardinality(records) = 1
                 /\ \A k \in records :
                       /\ res[k].Properties.Name = app.Name \o <<".">> \o tmpl.HostedZone[1].Name
                       /\ res[k].Properties.Type = "CNAME"
                       /\ res[k].Properties.TTL = 60
                       /\ res[k].Properties.ResourceRecords
                             = << [Ref |-> <<"w","e","b">> \o Str_LoadBalancer] >>
            ELSE records = {}

(***************************************************************************)
(* C8: the pass for a process with no Exposure stores a service with an    *)
(* empty LoadBalancers list and a container with no port mappings; and no  *)
(* load balancer (hence no listener) and no Custom::InstancePort in the    *)
(* template comes from a process with no Exposure.                         *)
(***************************************************************************)
C8_UnexposedHasNoNetworkResources ==
    /\ (PassDone /\ ~Last.Exposure.Exposed) =>
          LET sv == ExpectedService(Last)
              td == ExpectedTaskDefinition(Last)
          IN
          /\ IsService(resources[sv])
          /\ resources[sv].Properties.LoadBalancers = << >>
          /\ IsTaskDefinition(resources[td])
          /\ \A c \in Range(resources[td].Properties.ContainerDefinitions) :
                c.PortMappings = << >>
    /\ \A k \in DOMAIN resources :
          /\ IsLoadBalancer(resources[k]) =>
                \E q \in ExposedProcesses :
                    /\ k = ExpectedLoadBalancer(q)
                    /\ resources[k].Properties.Tags[1].Value = q.Type
          /\ IsInstancePort(resources[k]) =>
                \E q \in ExposedProcesses : k = ExpectedInstancePort(q)
    /\ ExposedProcesses = {} =>
          \A k \in DOMAIN resources : IsTaskDefinition(resources[k]) \/ IsService(resources[k])

\* the pass for a process with no Exposure has run, in an App that also has
\* an exposed process
C8_Witness ==
    /\ PassDone
    /\ ~Last.Exposure.Exposed
    /\ i = 3
    /\ app.Processes[1].Exposure.Exposed
    /\ resources[ExpectedService(Last)].Properties.LoadBalancers = << >>

(***************************************************************************)
(* C9: a service's properties have the key Role exactly if its             *)
(* LoadBalancers list is not empty, and the service the pass for a process *)
(* stores has a non-empty LoadBalancers list exactly if the process is     *)
(* exposed.                                                                *)
(***************************************************************************)
C9_RoleIffLoadBalancers ==
    /\ \A k \in DOMAIN resources :
          IsService(resources[k]) =>
              /\ ("Role" \in DOMAIN resources[k].Properties)
                    <=> (Len(resources[k].Properties.LoadBalancers) > 0)
              /\ ("Role" \in DOMAIN resources[k].Properties)
                    => resources[k].Properties.Role = tmpl.ServiceRole
    /\ PassDone =>
          /\ IsService(resources[ExpectedService(Last)])
          /\ ("Role" \in DOMAIN resources[ExpectedService(Last)].Properties)
                <=> Last.Exposure.Exposed
          /\ (Len(resources[ExpectedService(Last)].Properties.LoadBalancers) > 0)
                <=> Last.Exposure.Exposed

\* a service with Role and a service without, in one template
C9_Witness ==
    /\ Returned
    /\ \E k \in DOMAIN resources :
          IsService(resources[k]) /\ "Role" \in DOMAIN resources[k].Properties
    /\ \E k \in DOMAIN resources :
          IsService(resources[k]) /\ "Role" \notin DOMAIN resources[k].Properties

(***************************************************************************)
(* C10: the pass for a process stores its task definition, service, load   *)
(* balancer and instance port under {id}TaskDefinition, {id},              *)
(* {id}LoadBalancer and {id}8080InstancePort, where {id} is the process    *)
(* type without the characters outside [A-Za-z0-9], the others in their    *)
(* order: "worker1" for "worker-1".                                        *)
(***************************************************************************)
C10_KeysFromNormalizedType ==
    PassDone =>
      LET td == ExpectedTaskDefinition(Last)
          sv == ExpectedService(Last)
          lb == ExpectedLoadBalancer(Last)
          ip == ExpectedInstancePort(Last)
      IN
        /\ Last.Type = <<"w","o","r","k","e","r","-","1">>
              => <<"w","o","r","k","e","r","1">> \in DOMAIN resources
        /\ td \in DOMAIN resources
        /\ IsTaskDefinition(resources[td])
        /\ resources[td].Properties.ContainerDefinitions[1].Name = Last.Type
        /\ sv \in DOMAIN resources
        /\ IsService(resources[sv])
        /\ resources[sv].Metadata.name = Last.Type
        /\ resources[sv].Properties.TaskDefinition
              = [Ref |-> td]
        /\ Last.Exposure.Exposed =>
              /\ lb \in DOMAIN resources
              /\ IsLoadBalancer(resources[lb])
              /\ resources[lb].Properties.Tags[1].Value = Last.Type
              /\ ip \in DOMAIN resources
              /\ IsInstancePort(resources[ip])

\* the pass for an exposed "worker-1" has run
C10_Witness ==
    /\ PassDone
    /\ Last.Type = <<"w","o","r","k","e","r","-","1">>
    /\ Last.Exposure.Exposed
    /\ DOMAIN resources =
          { <<"w","o","r","k","e","r","1">>,
            <<"w","o","r","k","e","r","1">> \o Str_TaskDefinition,
            <<"w","o","r","k","e","r","1">> \o Str_LoadBalancer,
            <<"w","o","r","k","e","r","1">> \o <<"8","0","8","0">> \o Str_InstancePort }


(***************************************************************************)
(* Build on Apps of one process whose memory limit and nproc range over    *)
(* many values: the inputs of ContainerDefinition's conversions.           *)
(***************************************************************************)
MaxMegabytes == 3   \* memory limits up to this many megabytes, and 100 MB
MaxNproc == 3       \* nproc up to this, and 256

MemoryLimits ==
    {m * MB + d : m \in 0..MaxMegabytes, d \in {0, 1, MB \div 2, MB - 1}}
    \cup {100 * MB, 100 * MB + 1}

Nprocs == 0..MaxNproc \cup {256}

ContainerDefinitionApps ==
    { [Name |-> Str_acme,
       Processes |-> << [Process(t, s) EXCEPT !.MemoryLimit = b, !.Nproc = n] >>] :
        t \in {Str_web, Str_worker1}, s \in ProcessShapes,
        b \in MemoryLimits, n \in Nprocs }

InitContainerDefinition ==
    /\ app \in ContainerDefinitionApps
    /\ tmpl \in Templates
    /\ pc = "idle"
    /\ i = 1
    /\ parameters = EmptyMap
    /\ resources = EmptyMap
    /\ outputs = EmptyMap
    /\ ret = << >>
    /\ prev = << >>
    /\ calls = 0
    /\ graph = << >>
    /\ answered = {}
    /\ materialized = {}

SpecContainerDefinition == InitContainerDefinition /\ [][Next]_vars

\* the container definition the last pass put into the task definition
LastContainer ==
    resources[ExpectedTaskDefinition(Last)].Properties.ContainerDefinitions[1]

(***************************************************************************)
(* C11: the container's Memory is the memory limit in bytes divided by     *)
(* 2^20, the remainder dropped: Memory * 2^20 <= b < (Memory + 1) * 2^20   *)
(* for every limit b; 104857600 and 104857601 both give 100.               *)
(***************************************************************************)
C11_MemoryIsWholeMegabytes ==
    PassDone =>
        LET b == Last.MemoryLimit
            m == LastContainer.Memory
        IN  /\ m * 2^20 <= b
            /\ b < (m + 1) * 2^20
            /\ b = 104857600 => m = 100
            /\ b = 104857601 => m = 100

\* 104857601 bytes have become 100
C11_Witness ==
    /\ PassDone
    /\ Last.MemoryLimit = 104857601
    /\ LastContainer.Memory = 100

\* a limit just under two megabytes has become 1
C11_WitnessRemainder ==
    /\ PassDone
    /\ Last.MemoryLimit = 2 * 2^20 - 1
    /\ LastContainer.Memory = 1

(***************************************************************************)
(* C12: the container has no Ulimits entry when the process's nproc is 0,  *)
(* and exactly one, named "nproc", with soft and hard limit both equal to  *)
(* nproc, when it is not 0.                                                *)
(***************************************************************************)
C12_UlimitsFromNproc ==
    PassDone =>
        LET u == LastContainer.Ulimits
        IN  IF Last.Nproc = 0
            THEN Len(u) = 0
            ELSE /\ Len(u) = 1
                 /\ u[1].Name = "nproc"
                 /\ u[1].SoftLimit = Last.Nproc
                 /\ u[1].HardLimit = Last.Nproc

\* nproc 256 has become one entry
C12_Witness ==
    /\ PassDone
    /\ Last.Nproc = 256
    /\ LastContainer.Ulimits = << [Name |-> "nproc", SoftLimit |-> 256, HardLimit |-> 256] >>

\* nproc 0 has become no entry
C12_WitnessZero ==
    /\ PassDone
    /\ Last.Nproc = 0
    /\ LastContainer.Ulimits = << >>


(***************************************************************************)
(* C13: no step of Build changes the App or the template configuration;    *)
(* every call starts its loop with empty Parameters, Resources and Outputs *)
(* maps, whatever the calls before it built; and the resources of a call   *)
(* are those of the processes its own loop has passed.                     *)
(***************************************************************************)
C13_BuildKeepsNoState ==
    /\ [][app' = app /\ tmpl' = tmpl]_vars
    /\ []((pc = "loop" /\ i = 1) =>
             (parameters = EmptyMap /\ resources = EmptyMap /\ outputs = EmptyMap))
    /\ [](pc \in {"loop", "returned"} =>
             /\ parameters = EmptyMap
             /\ outputs = EmptyMap
             /\ DOMAIN resources
                   = UNION {ContributedIds(app.Processes[j]) : j \in 1..(i - 1)})
    /\ [](Returned => ReturnedTemplate = Template(EmptyMap, resources, EmptyMap))

\* a second call starts with empty maps after a first call returned resources
C13_Witness ==
    /\ calls = 2
    /\ pc = "loop"
    /\ i = 1
    /\ prev # << >>
    /\ DOMAIN prev[1].v[1].Resources # {}
    /\ resources = EmptyMap

(***************************************************************************)
(* Build on Apps in which the type of one process is a logical id derived  *)
(* from the type of another.                                               *)
(***************************************************************************)
Str_webLoadBalancer == Str_web \o Str_LoadBalancer
Str_webTaskDefinition == Str_web \o Str_TaskDefinition

DerivedIdTypes == {Str_web, Str_webLoadBalancer, Str_webTaskDefinition, Str_CNAME}

DerivedIdApps ==
    { [Name |-> Str_acme, Processes |-> ps] :
        ps \in {q \in UNION {[1..n -> {Process(t, s) : t \in DerivedIdTypes, s \in ProcessShapes}] :
                                n \in 0..MaxProcs} : DistinctTypes(q)} }

InitDerivedIds ==
    /\ app \in DerivedIdApps
    /\ tmpl \in Templates
    /\ pc = "idle"
    /\ i = 1
    /\ parameters = EmptyMap
    /\ resources = EmptyMap
    /\ outputs = EmptyMap
    /\ ret = << >>
    /\ prev = << >>
    /\ calls = 0
    /\ graph = << >>
    /\ answered = {}
    /\ materialized = {}

SpecDerivedIds == InitDerivedIds /\ [][Next]_vars

(***************************************************************************)
(* C14: in the returned template of an App with pairwise distinct process  *)
(* types, a service's TaskDefinition names a task definition, that of the  *)
(* service's own process; a service's LoadBalancerName and the record's    *)
(* reference name a load balancer; every Fn::GetAtt of InstancePort names  *)
(* a Custom::InstancePort.                                                 *)
(***************************************************************************)
C14_ReferencesNameTheIntendedKind ==
    (Returned /\ DistinctTypes(app.Processes)) =>
        LET res == ReturnedTemplate.Resources
        IN  \A k \in DOMAIN res :
              /\ IsService(res[k]) =>
                    /\ IsTaskDefinition(res[res[k].Properties.TaskDefinition.Ref])
                    /\ res[res[k].Properties.TaskDefinition.Ref]
                          .Properties.ContainerDefinitions[1].Name = res[k].Metadata.name
                    /\ \A a \in Range(res[k].Properties.LoadBalancers) :
                          IsLoadBalancer(res[a.LoadBalancerName.Ref])
              /\ IsRecordSet(res[k]) =>
                    \A id \in ReferencedIds(res[k]) : IsLoadBalancer(res[id])
              /\ (IsLoadBalancer(res[k]) \/ IsTaskDefinition(res[k])) =>
                    \A id \in ReferencedIds(res[k]) : IsInstancePort(res[id])

(***************************************************************************)
(* The provisioning engine that applies a returned template, and the       *)
(* handler that answers its port-allocation requests.  Neither is code of  *)
(* Build: they are modelled from the description of the deferred port      *)
(* protocol.  The engine takes the resources of a returned template once,  *)
(* materializes a resource only when every resource it references is       *)
(* materialized, and a Custom::InstancePort only when the response to its  *)
(* port-allocation request has arrived.                                    *)
(***************************************************************************)
Str_webInstancePort == instancePortId(Str_web)

EngineTypes == {Str_web, Str_webInstancePort, Str_worker1}

EngineApps ==
    { [Name |-> Str_acme, Processes |-> ps] :
        ps \in {q \in UNION {[1..n -> {Process(t, s) : t \in EngineTypes, s \in ProcessShapes}] :
                                n \in 0..MaxProcs} : DistinctTypes(q)} }

InitEngine ==
    /\ app \in EngineApps
    /\ tmpl \in Templates
    /\ pc = "idle"
    /\ i = 1
    /\ parameters = EmptyMap
    /\ resources = EmptyMap
    /\ outputs = EmptyMap
    /\ ret = << >>
    /\ prev = << >>
    /\ calls = 0
    /\ graph = << >>
    /\ answered = {}
    /\ materialized = {}

\* the engine is handed the template a call of Build returned
EngineApply ==
    /\ Returned
    /\ graph = << >>
    /\ graph' = << ReturnedTemplate.Resources >>
    /\ UNCHANGED <<app, tmpl, pc, i, parameters, resources, outputs, ret, prev, calls,
                   answered, materialized>>

\* the handler answers the port-allocation request of a Custom::InstancePort
PortAllocated(k) ==
    /\ graph # << >>
    /\ k \in DOMAIN graph[1]
    /\ IsInstancePort(graph[1][k])
    /\ k \notin answered
    /\ answered' = answered \cup {k}
    /\ UNCHANGED <<app, tmpl, pc, i, parameters, resources, outputs, ret, prev, calls,
                   graph, materialized>>

\* the engine materializes a resource all of whose references are materialized
Materialize(k) ==
    /\ graph # << >>
    /\ k \in DOMAIN graph[1]
    /\ k \notin materialized
    /\ ReferencedIds(graph[1][k]) \subseteq materialized
    /\ IsInstancePort(graph[1][k]) => k \in answered
    /\ materialized' = materialized \cup {k}
    /\ UNCHANGED <<app, tmpl, pc, i, parameters, resources, outputs, ret, prev, calls,
                   graph, answered>>

EngineIds == UNION {ContributedIds(Process(t, s)) : t \in EngineTypes, s \in ProcessShapes}

PortAllocation == \E k \in EngineIds : PortAllocated(k)
Materialization == \E k \in EngineIds : Materialize(k)

NextEngine ==
    \/ BuildCall
    \/ BuildIteration
    \/ BuildIterationPanics
    \/ BuildReturn
    \/ EngineApply
    \/ PortAllocation
    \/ Materialization

\* every port-allocation request is eventually answered, and the engine does
\* not stop while it can apply a template or materialize a resource
SpecEngine ==
    /\ InitEngine
    /\ [][NextEngine]_vars
    /\ WF_vars(EngineApply)
    /\ WF_vars(PortAllocation)
    /\ WF_vars(Materialization)

\* the ids of res that are left when the resources that reference only ids
\* of done are taken away, again and again
RECURSIVE Unordered(_, _)
Unordered(res, done) ==
    LET ready == {k \in DOMAIN res \ done : ReferencedIds(res[k]) \subseteq done}
    IN  IF ready = {} THEN DOMAIN res \ done ELSE Unordered(res, done \cup ready)

\* the relation "A references B" of the returned template has no cycle, and
\* the properties of a Custom::InstancePort hold no reference
C15_AcyclicReferences ==
    Returned =>
        LET res == ReturnedTemplate.Resources
        IN  /\ Unordered(res, {}) = {}
            /\ \A k \in DOMAIN res :
                  IsInstancePort(res[k]) =>
                      res[k].Properties = [ServiceToken |-> tmpl.CustomResourcesTopic]

\* a materialized load balancer or task definition has the port of every
\* Fn::GetAtt of InstancePort it holds: the request of that id was answered
C15_PortsResolvedFirst ==
    graph # << >> =>
        \A k \in materialized :
            (IsLoadBalancer(graph[1][k]) \/ IsTaskDefinition(graph[1][k])) =>
                ReferencedIds(graph[1][k]) \subseteq answered

AllMaterialized == graph # << >> /\ materialized = DOMAIN graph[1]

\* an applied template is materialized in whole
C15_EventuallyAllMaterialized == (graph # << >>) ~> AllMaterialized

(***************************************************************************)
(* C15: in every returned template the references have no cycle and a      *)
(* Custom::InstancePort references nothing; the engine never materializes  *)
(* a load balancer or a task definition before the instance port it        *)
(* references is resolved; and when every port-allocation request is       *)
(* answered, it materializes every resource in the end.                    *)
(***************************************************************************)
C15_EngineMaterializesInOrder ==
    /\ []C15_AcyclicReferences
    /\ []C15_PortsResolvedFirst
    /\ C15_EventuallyAllMaterialized

====
